---- MODULE Spec2Model ----
(***************************************************************************)
(* Model of AnalisisDatos.py: a Streamlit script that lists the Google     *)
(* Sheets a service account can see, loads one worksheet into a DataFrame, *)
(* promotes the best-looking leading row to column labels and hands the    *)
(* scalar columns to a profiling engine.                                   *)
(*                                                                         *)
(* Python values are records [type, s]: the value's type and its str()     *)
(* text as a sequence of one-character strings.  A DataFrame is a record   *)
(* [columns, index, rows]; Python positions are 0-based, TLA+ sequences    *)
(* 1-based, so row i of the code is rows[i + 1].                           *)
(***************************************************************************)
EXTENDS Integers, Sequences, FiniteSets, TLC

VARIABLES
    pc,             \* where the script (or the function checked on its own) stands
    args, result,   \* input and output of a function checked on its own
    secrets, apiUp, nSS, nWS, sheet,                \* the world outside
    client, cacheSS, cacheWS, cacheDatos, cacheReporte,  \* st.cache_* stores
    selSS, selWS, button,                           \* widget state
    spreadsheets, worksheets, loaded_df, html_report, msgs, \* the current run (loaded_df is the script's df)
    runs, called, dup                               \* history of the session

fnvars == <<args, result>>
world == <<secrets, apiUp, nSS, nWS, sheet>>
caches == <<client, cacheSS, cacheWS, cacheDatos, cacheReporte>>
widgets == <<selSS, selWS, button>>
locals == <<spreadsheets, worksheets, loaded_df, html_report, msgs>>
history == <<runs, called, dup>>
uivars == <<world, caches, widgets, locals, history>>
vars == <<pc, fnvars, uivars>>

----------------------------------------------------------------------------
(* Bounds of the model *)

\* Raw tables given to encontrar_mejor_header and cargar_datos.
MaxRows == 3
MaxCols == 2
\* Typed datasets given to generar_reporte.
FilterRows == 2
FilterCols == 3
\* The worksheet content, documents, worksheets and runs of a session.
SheetRows == 2
SheetCols == 1
MaxSpreadsheets == 2
MaxWorksheets == 2
MaxRuns == 3

----------------------------------------------------------------------------
(* Python values *)

PyStr(s) == [type |-> "str", s |-> s]

\* str(cell): the text of the value; the identity on a str.
Str(cell) == cell.s

RECURSIVE LStrip(_)
LStrip(s) == IF s = <<>> THEN s
             ELSE IF Head(s) = " " THEN LStrip(Tail(s)) ELSE s

RECURSIVE RStrip(_)
RStrip(s) == IF s = <<>> THEN s
             ELSE IF s[Len(s)] = " " THEN RStrip(SubSeq(s, 1, Len(s) - 1)) ELSE s

\* str.strip()
Strip(s) == RStrip(LStrip(s))

None == [some |-> FALSE, v |-> 0]
Some(x) == [some |-> TRUE, v |-> x]

Return(x) == [raised |-> FALSE, exc |-> "", value |-> x]
Raise(e) == [raised |-> TRUE, exc |-> e, value |-> None]

\* What st.error / st.warning show: the text and, for the excluded-columns
\* warning, the labels joined into it.
Message(text) == [text |-> text, cols |-> {}]

----------------------------------------------------------------------------
(* DataFrames *)

Digits == <<"0", "1", "2", "3", "4", "5", "6", "7", "8", "9">>

RECURSIVE IntStr(_)
IntStr(i) == IF i < 10 THEN <<Digits[i + 1]>>
             ELSE IntStr(i \div 10) \o <<Digits[(i % 10) + 1]>>

PyInt(i) == [type |-> "int", s |-> IntStr(i)]

\* pd.DataFrame(): no columns, no rows.
EmptyDataFrame == [columns |-> <<>>, index |-> <<>>, rows |-> <<>>]

\* pd.DataFrame(data) for a rectangular list of lists: RangeIndex labels on
\* both axes.
DataFrame(data) ==
    [columns |-> [j \in 1..(IF data = <<>> THEN 0 ELSE Len(data[1])) |-> PyInt(j - 1)],
     index   |-> [i \in 1..Len(data) |-> i - 1],
     rows    |-> data]

\* Empty that looks at the columns only.
EmptyNoColumns(df) == Len(df.columns) = 0

\* df.empty: some axis has length zero.
Empty(df) == Len(df.columns) = 0 \/ Len(df.index) = 0

\* df.iloc[i]
Iloc(df, i) == df.rows[i + 1]

----------------------------------------------------------------------------
(* encontrar_mejor_header *)

Min(a, b) == IF a < b THEN a ELSE b

RECURSIVE SumLen(_)
SumLen(fila) == IF fila = <<>> THEN 0
                ELSE Len(Str(Head(fila))) + SumLen(Tail(fila))

NonEmpty(fila) == Cardinality({j \in 1..Len(fila) : Strip(Str(fila[j])) # <<>>})

\* puntaje = non_empty * avg_len, kept as the exact fraction num/den with
\* den = len(fila).  The code computes it in IEEE doubles; for rows of up to
\* four cells of up to three characters the doubles order exactly as the
\* fractions do.
Puntaje(fila) == [num |-> NonEmpty(fila) * SumLen(fila), den |-> Len(fila)]

\* puntaje > mejor_puntaje
Greater(p, q) == p.num * q.den > q.num * p.den

\* One pass of the loop body for row i, then the rest of the loop.
RECURSIVE HeaderLoop(_, _, _, _, _)
HeaderLoop(df, i, n, mejor_puntaje, mejor_fila) ==
    IF i >= n THEN Return(mejor_fila)
    ELSE LET fila == Iloc(df, i) IN
         IF Len(fila) = 0 THEN Raise("ZeroDivisionError")
         ELSE IF Greater(Puntaje(fila), mejor_puntaje)
              THEN HeaderLoop(df, i + 1, n, Puntaje(fila), Some(i))
              ELSE HeaderLoop(df, i + 1, n, mejor_puntaje, mejor_fila)

\* def encontrar_mejor_header(df, max_filas=5)
DefaultMaxFilas == 5

encontrar_mejor_header(df, max_filas) ==
    HeaderLoop(df, 0, Min(max_filas, Len(df.index)), [num |-> 0, den |-> 1], None)

----------------------------------------------------------------------------
(* Inputs *)

\* The cell texts a worksheet holds in the model: blank, whitespace only,
\* and text followed by whitespace (lengths 0, 1 and 2).
CellTexts == {<<>>, <<" ">>, <<"x", " ">>}

StrCells == {PyStr(s) : s \in CellTexts}

Rows(cells, c) == [1..c -> cells]

\* Rectangular lists of lists of n rows and k columns.
Tables(cells, n, k) == [1..n -> Rows(cells, k)]

\* Values of max_filas: none, fewer than the rows, all rows, the default.
ScanLimits == {-1, 0, 1, 2, DefaultMaxFilas}

----------------------------------------------------------------------------
(* The session state while a function is checked on its own *)

SpreadsheetIds == 1..MaxSpreadsheets
WorksheetIds == 0..(MaxWorksheets - 1)

NoCaches ==
    /\ client = FALSE
    /\ cacheSS = <<>>
    /\ cacheWS = [s \in SpreadsheetIds |-> <<>>]
    /\ cacheDatos = [k \in SpreadsheetIds \X WorksheetIds |-> <<>>]
    /\ cacheReporte = {}

FreshRun ==
    /\ spreadsheets = <<>>
    /\ worksheets = <<>>
    /\ loaded_df = EmptyDataFrame
    /\ html_report = None
    /\ msgs = {}

UIOff ==
    /\ secrets = "ok" /\ apiUp = TRUE /\ nSS = 0 /\ nWS = 0 /\ sheet = <<>>
    /\ NoCaches
    /\ selSS = 0 /\ selWS = 0 /\ button = FALSE
    /\ FreshRun
    /\ runs = 0 /\ called = {} /\ dup = FALSE

----------------------------------------------------------------------------
(* Header detection on its own *)

InitHeader ==
    /\ UIOff
    /\ pc = "call"
    /\ \E n \in 0..MaxRows, k \in 0..MaxCols :
          \E d \in Tables(StrCells, n, k), limit \in ScanLimits :
             args = [df |-> DataFrame(d), max_filas |-> limit]
    /\ result = Return(None)

CallHeader ==
    /\ pc = "call"
    /\ pc' = "return"
    /\ result' = encontrar_mejor_header(args.df, args.max_filas)
    /\ UNCHANGED <<args, uivars>>

NextHeader == CallHeader

SpecHeader == InitHeader /\ [][NextHeader]_vars

----------------------------------------------------------------------------
(* cargar_datos *)

ErrCargando == Message("Error cargando datos: ")

\* SliceRows with the slice starting one row early (df[header_row:]).
SliceRowsFromHeader(df, k) ==
    [df EXCEPT !.index = SubSeq(df.index, k, Len(df.index)),
               !.rows  = SubSeq(df.rows, k, Len(df.rows))]

\* df[k:]: the rows from position k on, each with the index label it had.
SliceRows(df, k) ==
    [df EXCEPT !.index = SubSeq(df.index, k + 1, Len(df.index)),
               !.rows  = SubSeq(df.rows, k + 1, Len(df.rows))]

\* df.columns = new_header: the cells of the header row become the labels.
SetColumns(df, new_header) == [df EXCEPT !.columns = new_header]

\* df.columns = df.columns.astype(str)
ColumnsAsStr(df) ==
    [df EXCEPT !.columns = [j \in 1..Len(df.columns) |-> PyStr(Str(df.columns[j]))]]

\* ResetIndex with the call left out.
ResetIndexSkipped(df) == df

\* df.reset_index(drop=True, inplace=True)
ResetIndex(df) == [df EXCEPT !.index = [i \in 1..Len(df.rows) |-> i - 1]]

\* The body of `if header_row is not None:`
Promote(df, header_row) ==
    ResetIndex(ColumnsAsStr(SetColumns(SliceRows(df, header_row + 1),
                                       Iloc(df, header_row))))

\* worksheet.get_all_values() either raises or returns the list of lists
\* `fetch.value`; what the function hands back is the DataFrame together
\* with the st.error messages it showed.
cargar_datos(fetch) ==
    IF fetch.raised THEN [value |-> EmptyDataFrame, errors |-> {ErrCargando}]
    ELSE IF fetch.value = <<>> THEN [value |-> EmptyDataFrame, errors |-> {}]
    ELSE LET df == DataFrame(fetch.value)
             header_row == encontrar_mejor_header(df, DefaultMaxFilas)
         IN  IF header_row.raised
             THEN [value |-> EmptyDataFrame, errors |-> {ErrCargando}]
             ELSE IF header_row.value # None
                  THEN [value |-> Promote(df, header_row.value.v), errors |-> {}]
                  ELSE [value |-> df, errors |-> {}]

InitLoad ==
    /\ UIOff
    /\ pc = "call"
    /\ \/ args = [fetch |-> Raise("APIError")]
       \/ \E n \in 0..MaxRows, k \in 0..MaxCols :
             \E d \in Tables(StrCells, n, k) : args = [fetch |-> Return(d)]
    /\ result = Return(None)

CallCargarDatos ==
    /\ pc = "call"
    /\ pc' = "return"
    /\ result' = cargar_datos(args.fetch)
    /\ UNCHANGED <<args, uivars>>

NextLoad == CallCargarDatos

SpecLoad == InitLoad /\ [][NextLoad]_vars

----------------------------------------------------------------------------
(* generar_reporte *)

CompositeTypes == {"list", "dict", "tuple", "set"}

\* isinstance(x, (list, dict, tuple, set))
IsComposite(x) == x.type \in CompositeTypes

\* The positions of the columns labelled col.
Positions(df, col) == {j \in 1..Len(df.columns) : df.columns[j] = col}

\* df[col].apply(lambda x: isinstance(x, ...)).any().  With one column
\* labelled col, df[col] is a Series and the lambda sees its cells.  With
\* several, df[col] is a DataFrame, apply hands the lambda each column as a
\* Series, which is no list, dict, tuple or set, and any() is False.
AnyComposite(df, col) ==
    IF Cardinality(Positions(df, col)) = 1
    THEN LET j == CHOOSE j \in Positions(df, col) : TRUE
         IN  \E i \in 1..Len(df.rows) : IsComposite(df.rows[i][j])
    ELSE FALSE

RECURSIVE SelectSeq2(_, _, _)
SelectSeq2(seq, df, j) ==
    IF j > Len(seq) THEN <<>>
    ELSE (IF ~AnyComposite(df, seq[j]) THEN <<seq[j]>> ELSE <<>>)
         \o SelectSeq2(seq, df, j + 1)

\* [col for col in df.columns if not df[col].apply(...).any()]
columnas_validas(df) == SelectSeq2(df.columns, df, 1)

RECURSIVE SortedSeq(_)
SortedSeq(S) == IF S = {} THEN <<>>
                ELSE LET m == CHOOSE m \in S : \A x \in S : m <= x
                     IN  <<m>> \o SortedSeq(S \ {m})

\* The column positions df[labels] takes: for each label of the list in
\* turn, every column carrying it, left to right.
RECURSIVE TakePositions(_, _)
TakePositions(df, labels) ==
    IF labels = <<>> THEN <<>>
    ELSE SortedSeq(Positions(df, Head(labels))) \o TakePositions(df, Tail(labels))

\* df[columnas_validas].copy()
SelectColumns(df, labels) ==
    LET pos == TakePositions(df, labels)
    IN  [columns |-> [j \in 1..Len(pos) |-> df.columns[pos[j]]],
         index   |-> df.index,
         rows    |-> [i \in 1..Len(df.rows) |->
                         [j \in 1..Len(pos) |-> df.rows[i][pos[j]]]]]

Range(seq) == {seq[j] : j \in 1..Len(seq)}

WarnExcluidas(cols) == [text |-> "Se excluyeron columnas no compatibles: ", cols |-> cols]

\* perfil.to_html(): the report of the engine, a non-empty text.
Html(df, nombre_doc, nombre_hoja) ==
    [type |-> "str", title |-> <<"Reporte: ", nombre_doc, " - ", nombre_hoja>>, data |-> df]

Outcome(res, warnings, profiled) ==
    [raised |-> res.raised, exc |-> res.exc, value |-> res.value,
     warnings |-> warnings, profiled |-> profiled]

\* Lines 115-134.  ", ".join(columnas_excluidas) raises TypeError on a
\* label that is no str; the profiling engine is an external call that
\* answers with the report or raises (engine = "raise").  `profiled` lists
\* the datasets handed to the engine.
ReportBody(df, nombre_doc, nombre_hoja, engine) ==
    LET validas == columnas_validas(df)
        df_filtrado == SelectColumns(df, validas)
        columnas_excluidas == Range(df.columns) \ Range(validas)
    IN  IF columnas_excluidas # {} /\ \E c \in columnas_excluidas : c.type # "str"
        THEN Outcome(Raise("TypeError"), {}, <<>>)
        ELSE LET warnings == IF columnas_excluidas # {}
                             THEN {WarnExcluidas(columnas_excluidas)} ELSE {}
             IN  IF engine = "raise"
                 THEN Outcome(Raise("ProfilingError"), warnings, <<df_filtrado>>)
                 ELSE Outcome(Return(Some(Html(df_filtrado, nombre_doc, nombre_hoja))),
                              warnings, <<df_filtrado>>)

\* generar_reporte without its `if df.empty: return None`.
generar_reporte_unguarded(df, nombre_doc, nombre_hoja, engine) ==
    ReportBody(df, nombre_doc, nombre_hoja, engine)

generar_reporte(df, nombre_doc, nombre_hoja, engine) ==
    IF Empty(df) THEN Outcome(Return(None), {}, <<>>)
    ELSE ReportBody(df, nombre_doc, nombre_hoja, engine)

\* Typed input of the filter: text cells and cells of one further type.
Scalar == PyStr(<<"x">>)

Special == {[type |-> "list", s |-> <<"[", "]">>], [type |-> "dict", s |-> <<"{", "}">>],
            [type |-> "tuple", s |-> <<"(", ")">>], [type |-> "set", s |-> <<"s", "e", "t", "(", ")">>],
            [type |-> "NoneType", s |-> <<"N", "o", "n", "e">>]}

\* Column labels: promoted texts, repeated or not, or the RangeIndex.
Labelings(k) == [1..k -> {PyStr(<<"a">>), PyStr(<<"b">>)}] \cup {[j \in 1..k |-> PyInt(j - 1)]}

\* The frames of n rows and k columns whose cells are texts or v.
TypedFrames(n, k, v) ==
    {[columns |-> l, index |-> [i \in 1..n |-> i - 1], rows |-> t] :
        l \in Labelings(k), t \in Tables({Scalar, v}, n, k)}

Engines == {"ok", "raise"}

InitFilter ==
    /\ UIOff
    /\ pc = "call"
    /\ \E n \in 0..FilterRows, k \in 0..FilterCols, v \in Special :
          \E d \in TypedFrames(n, k, v) :
             args = [df |-> d, nombre_doc |-> "doc", nombre_hoja |-> "hoja"]
    /\ result = Return(None)

CallGenerarReporte ==
    /\ pc = "call"
    /\ pc' = "return"
    /\ \E engine \in Engines :
          result' = generar_reporte(args.df, args.nombre_doc, args.nombre_hoja, engine)
    /\ UNCHANGED <<args, uivars>>

NextFilter == CallGenerarReporte

SpecFilter == InitFilter /\ [][NextFilter]_vars

----------------------------------------------------------------------------
(* The script: one run from line 138 to the end per user interaction *)

\* The texts of the script up to their interpolated part, accents dropped.
ErrNoSecrets == Message("Error: No se encontraron credenciales en secrets.toml")
ErrAuth == Message("Error de autenticacion: ")
ErrHojas == Message("Error obteniendo hojas: ")
WarnNoSpreadsheets == Message("No se encontraron hojas de calculo. Comparte tus hojas con la cuenta de servicio.")
\* The worksheet warning written with the text of the spreadsheet warning.
WarnNoWorksheetsCopied == WarnNoSpreadsheets

WarnNoWorksheets == Message("Este documento no tiene hojas visibles.")
ErrNoData == Message("No se pudieron cargar datos de esta hoja")
SuccessLoaded == Message("Datos cargados: ")
Subheader == Message("Reporte de Calidad: ")
ErrReporte == Message("Error generando el reporte")
WarnSelecciona == Message("Selecciona un documento valido")

Spreadsheet(i) ==
    [title |-> <<"d">> \o IntStr(i), id |-> i,
     url |-> <<"https://docs.google.com/spreadsheets/d/">> \o IntStr(i)]

\* The grid size (row_count, col_count) of a worksheet is not modelled.
Worksheet(w) == [title |-> <<"h">> \o IntStr(w), id |-> w]

\* The body of get_all_spreadsheets, run against the world as it is now:
\* the value returned and the st.error messages shown.
get_all_spreadsheets ==
    IF apiUp
    THEN [value |-> [i \in 1..nSS |-> Spreadsheet(i)], errors |-> {}]
    ELSE [value |-> <<>>, errors |-> {ErrHojas}]

\* The body of get_worksheets; open_by_key raises for a document that is
\* not shared with the account.
get_worksheets(spreadsheet_id) ==
    IF apiUp /\ spreadsheet_id <= nSS
    THEN [value |-> [w \in 1..nWS |-> Worksheet(w - 1)], errors |-> {}]
    ELSE [value |-> <<>>, errors |-> {ErrHojas}]

\* open_by_key, get_worksheet_by_id and get_all_values of cargar_datos.
FetchNow(spreadsheet_id, worksheet_id) ==
    IF apiUp /\ spreadsheet_id <= nSS /\ worksheet_id < nWS
    THEN Return(sheet) ELSE Raise("APIError")

Key(op, s, w, d) == [op |-> op, s |-> s, w |-> w, df |-> d]

\* f"{s['title']} ({s['id']})"
OptionSS(x) == <<x.title, x.id>>

\* f"{ws['title']} ({ws['row_count']}x{ws['col_count']})"
OptionWS(x) == <<x.title>>

\* next((x for x in items if option(x) == selected), None), as a sequence
\* of at most one item.
FirstSS(items, selected) ==
    LET m == {i \in 1..Len(items) : OptionSS(items[i]) = selected}
    IN  IF m = {} THEN <<>> ELSE <<items[CHOOSE i \in m : \A j \in m : i <= j]>>

FirstWS(items, selected) ==
    LET m == {i \in 1..Len(items) : OptionWS(items[i]) = selected}
    IN  IF m = {} THEN <<>> ELSE <<items[CHOOSE i \in m : \A j \in m : i <= j]>>

selected_spreadsheet == FirstSS(spreadsheets, OptionSS(spreadsheets[selSS + 1]))

selected_worksheet == FirstWS(worksheets, OptionWS(worksheets[selWS + 1]))

\* DataUsable with the check of line 179 left out.
DataUsableAlways(d) == TRUE

\* The `else:` of `if df.empty:` on line 179.
DataUsable(d) == ~Empty(d)

\* `if html_report:` on line 191: neither None nor an empty text.
Truthy(h) == h # None

EndStates == {"stopped@22", "stopped@31", "stopped@146", "stopped@162",
              "done@175", "done@180", "done@193", "done@195", "done@197",
              "crashed@185"}

\* Line 139: gc = get_google_client(), under st.cache_resource.  st.stop()
\* raises a BaseException, which `except Exception` lets through.
GetClient ==
    /\ pc = "l139"
    /\ IF client THEN pc' = "l142" /\ UNCHANGED <<client, msgs>>
       ELSE IF secrets = "missing"
            THEN pc' = "stopped@22" /\ msgs' = msgs \cup {ErrNoSecrets} /\ UNCHANGED client
       ELSE IF secrets = "invalid"
            THEN pc' = "stopped@31" /\ msgs' = msgs \cup {ErrAuth} /\ UNCHANGED client
       ELSE pc' = "l142" /\ client' = TRUE /\ UNCHANGED msgs
    /\ UNCHANGED <<fnvars, world, cacheSS, cacheWS, cacheDatos, cacheReporte, widgets,
                   spreadsheets, worksheets, loaded_df, html_report, history>>

\* Lines 142-146.  st.cache_data keeps what the function returned, with
\* the messages it showed, and replays both on a later call.
ListSpreadsheets ==
    /\ pc = "l142"
    /\ LET hit == cacheSS # <<>>
           r == IF hit THEN cacheSS[1] ELSE get_all_spreadsheets
           k == Key("get_all_spreadsheets", 0, 0, EmptyDataFrame)
       IN  /\ cacheSS' = <<r>>
           /\ called' = IF hit THEN called ELSE called \cup {k}
           /\ dup' = (dup \/ (~hit /\ k \in called))
           /\ spreadsheets' = r.value
           /\ IF r.value = <<>>
              THEN pc' = "stopped@146" /\ msgs' = msgs \cup r.errors \cup {WarnNoSpreadsheets}
              ELSE pc' = "l148" /\ msgs' = msgs \cup r.errors
    /\ UNCHANGED <<fnvars, world, client, cacheWS, cacheDatos, cacheReporte, widgets,
                   worksheets, loaded_df, html_report, runs>>

\* Lines 148-162 and 196-197.
ListWorksheets ==
    /\ pc = "l148"
    /\ IF selected_spreadsheet = <<>>
       THEN /\ pc' = "done@197"
            /\ msgs' = msgs \cup {WarnSelecciona}
            /\ UNCHANGED <<cacheWS, called, dup, worksheets>>
       ELSE LET id == selected_spreadsheet[1].id
                hit == cacheWS[id] # <<>>
                r == IF hit THEN cacheWS[id][1] ELSE get_worksheets(id)
                k == Key("get_worksheets", id, 0, EmptyDataFrame)
            IN  /\ cacheWS' = [cacheWS EXCEPT ![id] = <<r>>]
                /\ called' = IF hit THEN called ELSE called \cup {k}
                /\ dup' = (dup \/ (~hit /\ k \in called))
                /\ worksheets' = r.value
                /\ IF r.value = <<>>
                   THEN pc' = "stopped@162" /\ msgs' = msgs \cup r.errors \cup {WarnNoWorksheets}
                   ELSE pc' = "l164" /\ msgs' = msgs \cup r.errors
    /\ UNCHANGED <<fnvars, world, client, cacheSS, cacheDatos, cacheReporte, widgets,
                   spreadsheets, loaded_df, html_report, runs>>

\* Lines 164-175: the worksheet selector and the "Generar Reporte" button.
PickWorksheet ==
    /\ pc = "l164"
    /\ pc' = IF selected_worksheet # <<>> /\ button THEN "l176" ELSE "done@175"
    /\ UNCHANGED <<fnvars, uivars>>

\* Lines 176-177.
LoadData ==
    /\ pc = "l176"
    /\ LET s == selected_spreadsheet[1].id
           w == selected_worksheet[1].id
           hit == cacheDatos[<<s, w>>] # <<>>
           r == IF hit THEN cacheDatos[<<s, w>>][1] ELSE cargar_datos(FetchNow(s, w))
           k == Key("cargar_datos", s, w, EmptyDataFrame)
       IN  /\ cacheDatos' = [cacheDatos EXCEPT ![<<s, w>>] = <<r>>]
           /\ called' = IF hit THEN called ELSE called \cup {k}
           /\ dup' = (dup \/ (~hit /\ k \in called))
           /\ loaded_df' = r.value
           /\ msgs' = msgs \cup r.errors
    /\ pc' = "l179"
    /\ UNCHANGED <<fnvars, world, client, cacheSS, cacheWS, cacheReporte, widgets,
                   spreadsheets, worksheets, html_report, runs>>

\* Lines 179-182.
CheckData ==
    /\ pc = "l179"
    /\ IF DataUsable(loaded_df)
       THEN pc' = "l185" /\ msgs' = msgs \cup {SuccessLoaded}
       ELSE pc' = "done@180" /\ msgs' = msgs \cup {ErrNoData}
    /\ UNCHANGED <<fnvars, world, caches, widgets, spreadsheets, worksheets, loaded_df,
                   html_report, history>>

\* Lines 184-189.  generar_reporte has no try: what it raises leaves it,
\* is not cached, and ends the run of the script.
MakeReport ==
    /\ pc = "l185"
    /\ LET doc == selected_spreadsheet[1].title
           hoja == selected_worksheet[1].title
           cached == {e \in cacheReporte :
                         e.df = loaded_df /\ e.nombre_doc = doc /\ e.nombre_hoja = hoja}
           k == Key("generar_reporte", selected_spreadsheet[1].id,
                    selected_worksheet[1].id, loaded_df)
       IN  IF cached # {}
           THEN LET e == CHOOSE e \in cached : TRUE
                IN  /\ html_report' = e.value
                    /\ msgs' = msgs \cup e.warnings
                    /\ pc' = "l191"
                    /\ UNCHANGED <<cacheReporte, called, dup>>
           ELSE \E engine \in Engines :
                  LET r == generar_reporte(loaded_df, doc, hoja, engine)
                  IN  /\ called' = IF r.profiled = <<>> THEN called ELSE called \cup {k}
                      /\ dup' = (dup \/ (r.profiled # <<>> /\ k \in called))
                      /\ msgs' = msgs \cup r.warnings
                      /\ IF r.raised
                         THEN /\ pc' = "crashed@185"
                              /\ UNCHANGED <<cacheReporte, html_report>>
                         ELSE /\ pc' = "l191"
                              /\ html_report' = r.value
                              /\ cacheReporte' = cacheReporte \cup
                                    {[df |-> loaded_df, nombre_doc |-> doc, nombre_hoja |-> hoja,
                                      value |-> r.value, warnings |-> r.warnings]}
    /\ UNCHANGED <<fnvars, world, client, cacheSS, cacheWS, cacheDatos, widgets,
                   spreadsheets, worksheets, loaded_df, runs>>

\* Lines 191-195.
Render ==
    /\ pc = "l191"
    /\ IF Truthy(html_report)
       THEN pc' = "done@193" /\ msgs' = msgs \cup {Subheader}
       ELSE pc' = "done@195" /\ msgs' = msgs \cup {ErrReporte}
    /\ UNCHANGED <<fnvars, world, caches, widgets, spreadsheets, worksheets, loaded_df,
                   html_report, history>>

\* A user interaction reruns the script from the top with the widget
\* state it produced; the st.cache_* stores live on.
Rerun(ss, ws, pressed) ==
    /\ pc \in EndStates
    /\ runs < MaxRuns
    /\ runs' = runs + 1
    /\ pc' = "l139"
    /\ selSS' = ss /\ selWS' = ws /\ button' = pressed
    /\ spreadsheets' = <<>>
    /\ worksheets' = <<>>
    /\ loaded_df' = EmptyDataFrame
    /\ html_report' = None
    /\ msgs' = {}
    /\ UNCHANGED <<fnvars, world, caches, called, dup>>

\* The user picks another document in the selector the last run drew.
UserSelectSpreadsheet ==
    \E i \in 0..(Len(spreadsheets) - 1) : i # selSS /\ Rerun(i, 0, FALSE)

\* The user picks another worksheet in the selector the last run drew.
UserSelectWorksheet ==
    \E j \in 0..(Len(worksheets) - 1) : j # selWS /\ Rerun(selSS, j, FALSE)

\* The user presses "Generar Reporte", drawn once a worksheet is selected.
UserPressButton == worksheets # <<>> /\ Rerun(selSS, selWS, TRUE)

\* The user reruns the script as it is.
UserRerun == pc \in EndStates /\ Rerun(selSS, selWS, FALSE)

\* Between two runs the API starts or stops answering (what happens after
\* the last run of the session is not followed).
EnvApi ==
    /\ pc \in EndStates
    /\ runs < MaxRuns
    /\ apiUp' = ~apiUp
    /\ UNCHANGED <<pc, fnvars, secrets, nSS, nWS, sheet, caches, widgets, locals, history>>

\* Between two runs the documents are shared with the account or withdrawn.
EnvShare ==
    /\ pc \in EndStates
    /\ runs < MaxRuns
    /\ nSS' = IF nSS = 0 THEN MaxSpreadsheets ELSE 0
    /\ UNCHANGED <<pc, fnvars, secrets, apiUp, nWS, sheet, caches, widgets, locals, history>>

\* What a worksheet of the session holds: blank cells and text cells.
SheetCells == {PyStr(<<>>), PyStr(<<"x", " ">>)}

Init ==
    /\ pc = "l139"
    /\ args = Return(None) /\ result = Return(None)
    /\ secrets \in {"missing", "invalid", "ok"}
    /\ apiUp \in BOOLEAN
    /\ nSS \in {0, MaxSpreadsheets}
    /\ nWS \in {0, MaxWorksheets}
    /\ \E n \in 0..SheetRows, k \in 0..SheetCols : sheet \in Tables(SheetCells, n, k)
    /\ NoCaches
    /\ selSS = 0 /\ selWS = 0 /\ button = FALSE
    /\ FreshRun
    /\ runs = 1 /\ called = {} /\ dup = FALSE

Next ==
    \/ GetClient
    \/ ListSpreadsheets
    \/ ListWorksheets
    \/ PickWorksheet
    \/ LoadData
    \/ CheckData
    \/ MakeReport
    \/ Render
    \/ UserSelectSpreadsheet
    \/ UserSelectWorksheet
    \/ UserPressButton
    \/ UserRerun
    \/ EnvApi
    \/ EnvShare

Spec == Init /\ [][Next]_vars

----------------------------------------------------------------------------
(* Claims about header detection (SpecHeader) *)

\* The rows the claim says are scanned: the first min(N, row count).
Scanned(df, n) == {i \in 0..(Len(df.index) - 1) : i < n}

\* The claim's score of a row, as a fraction; a row without cells has no
\* average and counts as scoring zero.
ClaimScore(fila) == IF Len(fila) = 0 THEN [num |-> 0, den |-> 1] ELSE Puntaje(fila)

AtLeast(p, q) == p.num * q.den >= q.num * p.den

Positive(p) == p.num > 0

\* What the claim says the function returns.
ClaimedHeader(df, n) ==
    LET best == {i \in Scanned(df, n) :
                    /\ Positive(ClaimScore(Iloc(df, i)))
                    /\ \A j \in Scanned(df, n) :
                           AtLeast(ClaimScore(Iloc(df, i)), ClaimScore(Iloc(df, j)))}
    IN  IF best = {} THEN None
        ELSE Some(CHOOSE i \in best : \A j \in best : i <= j)

\* C1: for every dataset of string cells and every scan limit N,
\* encontrar_mejor_header returns the lowest index among the first
\* min(N, row count) rows whose score (non-empty cells x average cell
\* length) is the maximum, if that maximum is above zero, and returns none
\* when the dataset is empty or every scanned row scores zero.
ClaimC1 ==
    pc = "return" =>
        /\ ~result.raised
        /\ result.value = ClaimedHeader(args.df, args.max_filas)

\* The same statement for the datasets whose rows have at least one cell.
HeaderAsClaimedWithCells ==
    (pc = "return" /\ Len(args.df.columns) > 0) =>
        /\ ~result.raised
        /\ result.value = ClaimedHeader(args.df, args.max_filas)

\* A tie between two scanned rows, with a better row beyond the scan limit:
\* the first of the two is returned.
TieSeen ==
    /\ pc = "return"
    /\ args.max_filas = 2
    /\ Len(args.df.index) = 3
    /\ Len(args.df.columns) = 2
    /\ Iloc(args.df, 0) # Iloc(args.df, 1)
    /\ Puntaje(Iloc(args.df, 0)).num = Puntaje(Iloc(args.df, 1)).num
    /\ Puntaje(Iloc(args.df, 2)).num > Puntaje(Iloc(args.df, 0)).num
    /\ result.value = Some(0)

----------------------------------------------------------------------------
(* Claims about cargar_datos (SpecLoad) *)

Loaded == pc = "return" /\ ~args.fetch.raised /\ args.fetch.value # <<>>

Raw == DataFrame(args.fetch.value)

Detected == encontrar_mejor_header(Raw, DefaultMaxFilas)

Promoted == Loaded /\ ~Detected.raised /\ Detected.value.some

\* C2: when header detection returns row h, the labels of the result are
\* the string values of raw row h, the rows are the raw rows after h in
\* their order, numbered from zero; when it returns none the raw dataset
\* comes back unchanged.
ThmC2 ==
    Loaded =>
        LET raw == Raw
            det == encontrar_mejor_header(raw, DefaultMaxFilas)
            h == det.value.v
            out == result.value
        IN  /\ (~det.raised /\ det.value.some) =>
                  /\ out.columns = [j \in 1..Len(raw.columns) |-> PyStr(Str(raw.rows[h + 1][j]))]
                  /\ Len(out.rows) = Len(raw.rows) - (h + 1)
                  /\ \A i \in 1..Len(out.rows) : out.rows[i] = raw.rows[h + 1 + i]
                  /\ out.index = [i \in 1..Len(out.rows) |-> i - 1]
                  /\ result.errors = {}
            /\ (~det.raised /\ ~det.value.some) =>
                  /\ out = raw
                  /\ result.errors = {}

\* Row 0 promoted, two different data rows left behind it.
WitC2 ==
    /\ Promoted
    /\ Detected.value.v = 0
    /\ Len(result.value.rows) = 2
    /\ result.value.rows[1] # result.value.rows[2]

\* C3 as stated: after promotion the result has one row fewer than the
\* input, and as many columns as the header row has cells.
OrigC3 ==
    Promoted =>
        /\ Len(result.value.rows) = Len(Raw.rows) - 1
        /\ Len(result.value.columns) = Len(Raw.rows[Detected.value.v + 1])

\* C3 amended: after promotion at row h the result has h + 1 rows fewer
\* than the input (one fewer exactly when h = 0), and as many columns as
\* the header row has cells.
ThmC3 ==
    Loaded =>
        LET det == Detected
        IN  (~det.raised /\ det.value.some) =>
                /\ Len(result.value.rows) = Len(args.fetch.value) - (det.value.v + 1)
                /\ Len(result.value.index) = Len(result.value.rows)
                /\ Len(result.value.columns) = Len(args.fetch.value[det.value.v + 1])

\* A header found below row 0, with a data row after it.
WitC3 ==
    /\ Promoted
    /\ Detected.value.v = 1
    /\ Len(result.value.rows) = 1

----------------------------------------------------------------------------
(* Claims about generar_reporte (SpecFilter) *)

\* The columns none of whose cells is a list, dict, tuple or set.
ScalarPositions(df) ==
    {j \in 1..Len(df.columns) : \A i \in 1..Len(df.rows) : ~IsComposite(df.rows[i][j])}

\* df reduced to the columns at the positions of P, in their order.
Projection(df, P) ==
    LET pos == SortedSeq(P)
    IN  [columns |-> [j \in 1..Len(pos) |-> df.columns[pos[j]]],
         index   |-> df.index,
         rows    |-> [i \in 1..Len(df.rows) |->
                         [j \in 1..Len(pos) |-> df.rows[i][pos[j]]]]]

FilterAsClaimed ==
    LET expected == Projection(args.df, ScalarPositions(args.df))
        excluded == Range(args.df.columns) \ Range(expected.columns)
    IN  /\ result.profiled = <<expected>>
        /\ result.warnings = IF excluded = {} THEN {} ELSE {WarnExcluidas(excluded)}

\* C4: on a non-empty dataset the filtered dataset keeps exactly the
\* columns with no list, dict, tuple or set cell, in their original order,
\* and the excluded columns reported to the user are the original columns
\* minus the filtered ones.
ClaimC4 == (pc = "return" /\ ~Empty(args.df)) => FilterAsClaimed

\* The same statement for datasets whose labels are texts, each used once.
FilterAsClaimedOnDistinctTexts ==
    (/\ pc = "return"
     /\ ~Empty(args.df)
     /\ \A j \in 1..Len(args.df.columns) :
           /\ args.df.columns[j].type = "str"
           /\ Positions(args.df, args.df.columns[j]) = {j})
    => FilterAsClaimed

\* C6: on an empty dataset generar_reporte returns none without calling
\* the profiling engine, and it returns none in no other case: a failure of
\* the engine raises instead.
ThmC6 ==
    pc = "return" =>
        /\ Empty(args.df) =>
              /\ ~result.raised
              /\ result.value = None
              /\ result.profiled = <<>>
              /\ result.warnings = {}
        /\ (~result.raised /\ result.value = None) => Empty(args.df)
        /\ result.raised => ~Empty(args.df)

\* An empty dataset that has labels but no rows, answered with none.
WitC6 ==
    /\ pc = "return"
    /\ Len(args.df.columns) = 2
    /\ Len(args.df.rows) = 0
    /\ ~result.raised
    /\ result.value = None

----------------------------------------------------------------------------
(* Claims about the script (Spec) *)

\* The run has got past the named step.
PastClient == pc \notin {"l139", "stopped@22", "stopped@31"}
PastListing == PastClient /\ pc # "l142"
PastWorksheets == PastListing /\ pc \notin {"stopped@146", "l148", "done@197"}
PastLoad == PastWorksheets /\ pc \notin {"stopped@162", "l164", "done@175", "l176"}
PastCheck == PastLoad /\ pc # "l179"

EmptyMessages == {WarnNoSpreadsheets, WarnNoWorksheets, ErrNoData}
FailureMessages == {ErrNoSecrets, ErrAuth, ErrHojas, ErrCargando, ErrReporte}

\* C5: every failure of a pipeline operation is caught and shown as a
\* message: a failed listing yields an empty list, a failed load an empty
\* dataset, and nothing leaves the script as an uncaught exception.
ClaimC5 ==
    /\ (cacheSS # <<>> /\ cacheSS[1].errors # {}) => cacheSS[1].value = <<>>
    /\ \A s \in SpreadsheetIds :
          (cacheWS[s] # <<>> /\ cacheWS[s][1].errors # {}) => cacheWS[s][1].value = <<>>
    /\ \A k \in SpreadsheetIds \X WorksheetIds :
          (cacheDatos[k] # <<>> /\ cacheDatos[k][1].errors # {})
              => cacheDatos[k][1].value = EmptyDataFrame
    /\ pc # "crashed@185"

\* The part of C5 about the listings and the load.
FailuresOfFetchesCaught ==
    /\ (cacheSS # <<>> /\ cacheSS[1].errors # {}) => cacheSS[1].value = <<>>
    /\ \A s \in SpreadsheetIds :
          (cacheWS[s] # <<>> /\ cacheWS[s][1].errors # {}) => cacheWS[s][1].value = <<>>
    /\ \A k \in SpreadsheetIds \X WorksheetIds :
          (cacheDatos[k] # <<>> /\ cacheDatos[k][1].errors # {})
              => cacheDatos[k][1].value = EmptyDataFrame

\* C7: no spreadsheets, no worksheets and no rows each end the run in an
\* orderly way with a message of their own, which is none of the messages
\* of the failures.
ThmC7 ==
    /\ Cardinality(EmptyMessages) = 3
    /\ EmptyMessages \cap FailureMessages = {}
    /\ (PastListing /\ spreadsheets = <<>>) =>
          /\ pc = "stopped@146"
          /\ msgs \cap EmptyMessages = {WarnNoSpreadsheets}
    /\ (PastWorksheets /\ worksheets = <<>>) =>
          /\ pc = "stopped@162"
          /\ msgs \cap EmptyMessages = {WarnNoWorksheets}
    /\ (PastCheck /\ Empty(loaded_df)) =>
          /\ pc = "done@180"
          /\ msgs \cap EmptyMessages = {ErrNoData}

\* A document without worksheets, listed without any failure.
WitC7 ==
    /\ pc = "stopped@162"
    /\ worksheets = <<>>
    /\ msgs = {WarnNoWorksheets}

\* C8: each memoized operation goes out at most once per input, and what
\* the store hands back is what the operation would return if it ran again
\* now.
ClaimC8 ==
    /\ ~dup
    /\ cacheSS # <<>> => cacheSS[1].value = get_all_spreadsheets.value
    /\ \A s \in SpreadsheetIds :
          cacheWS[s] # <<>> => cacheWS[s][1].value = get_worksheets(s).value
    /\ \A k \in SpreadsheetIds \X WorksheetIds :
          cacheDatos[k] # <<>> =>
              cacheDatos[k][1].value = cargar_datos(FetchNow(k[1], k[2])).value

\* C9: get_worksheets runs only after a non-empty listing, cargar_datos
\* only after a non-empty worksheet listing and a press of the button,
\* generar_reporte only on a non-empty dataset; so generar_reporte never
\* returns none here and the script never shows its report error.
ThmC9 ==
    /\ pc = "l148" => spreadsheets # <<>>
    /\ pc = "l176" => (spreadsheets # <<>> /\ worksheets # <<>> /\ button)
    /\ pc = "l185" => (button /\ ~Empty(loaded_df))
    /\ \A k \in called :
          /\ k.op = "get_worksheets" => (cacheSS # <<>> /\ cacheSS[1].value # <<>>)
          /\ k.op = "cargar_datos" => (cacheWS[k.s] # <<>> /\ cacheWS[k.s][1].value # <<>>)
          /\ k.op = "generar_reporte" => ~Empty(k.df)
    /\ \A e \in cacheReporte : e.value # None /\ ~Empty(e.df)
    /\ pc \in {"l191", "done@193"} => html_report # None
    /\ pc # "done@195"
    /\ ErrReporte \notin msgs

\* A report drawn from a worksheet with rows.
WitC9 ==
    /\ pc = "done@193"
    /\ button
    /\ Truthy(html_report)
    /\ ~Empty(loaded_df)

HeaderIsLastRow ==
    /\ sheet # <<>>
    /\ LET h == encontrar_mejor_header(DataFrame(sheet), DefaultMaxFilas)
       IN  ~h.raised /\ h.value = Some(Len(sheet) - 1)

\* C10: when the detected header is the last row of the worksheet, a load
\* that succeeds yields the labels of that row and no rows; the script
\* takes that for an empty dataset, shows the could-not-load error and
\* makes no report.
ThmC10 ==
    (HeaderIsLastRow /\ PastLoad) =>
        /\ ErrCargando \notin msgs =>
              loaded_df = [columns |-> [j \in 1..Len(sheet[1]) |->
                                           PyStr(Str(sheet[Len(sheet)][j]))],
                           index |-> <<>>, rows |-> <<>>]
        /\ PastCheck =>
              /\ pc = "done@180"
              /\ ErrNoData \in msgs
              /\ html_report = None
        /\ \A k \in called : k.op # "generar_reporte"

\* A worksheet whose only row has text, fetched without failure.
WitC10 ==
    /\ HeaderIsLastRow
    /\ Len(sheet) = 1
    /\ pc = "done@180"
    /\ msgs = {ErrNoData}
    /\ Len(loaded_df.columns) = 1

====
